---- MODULE Spec2Model ----
(***************************************************************************)
(* Model of the two cores of the albatross/tweetpile archive management:   *)
(*   - the collector command (the Stream Supervisor loop), and             *)
(*   - the ArchiveConsumer (the Consumption Worker).                       *)
(* The Supervisor is checked under Spec, the worker under WorkerSpec.      *)
(***************************************************************************)
EXTENDS Integers, Sequences, FiniteSets, TLC

(* ------------------------------ bounds -------------------------------- *)
NumArchives == 2
NumOwners == 2
MaxTime == 2
NumMessages == 2
MaxTweets == 2
MaxReconnects == 1
ClockStep == 300
MaxClock == 1200

\* ArchiveConsumer.DISTILLATION_WINDOW
DISTILLATION_WINDOW == 300

Archives == 1..NumArchives
Owners == 1..NumOwners

\* stopped IS NULL in the archive store
NULL == 0 - 1

STATUS_DISABLED == "disabled"
STATUS_ACTIVE == "active"

VARIABLES
    now,                  \* the wall clock read by loop() (datetime.now)
    archives,             \* the Archive table: pk -> row
    status,               \* User.status per owner
    tracking,             \* Command.tracking (a list)
    streams,              \* Command.streams (a dict keyed by owner)
    first_pass_completed, \* Command.first_pass_completed
    live,                 \* per owner: channels connected and not yet disconnect()ed
    last,                 \* what the latest loop iteration computed and did
    ev                    \* the latest step taken

svars == <<now, archives, status, tracking, streams, first_pass_completed,
           live, last, ev>>

VARIABLES
    clock,          \* timezone.now() as the worker reads it
    archive,        \* the worker's Archive object (self.archive)
    saved,          \* the fields of that archive as last written by save()
    tweets,         \* the record log, archive.get_tweets()
    collected,      \* per aggregator: the records its collect() was given
    is_stopped,     \* ArchiveConsumer.is_stopped
    should_stop,    \* ConsumerMixin.should_stop
    last_distilled, \* ArchiveConsumer.last_distilled
    phase,          \* where the worker thread is
    line,           \* replay: records of the log read so far
    qos,            \* basic_qos(0, 1, False) was called on the channel
    next_msg,       \* broker: the next message of the queue to deliver
    unacked,        \* broker: delivered and not yet acknowledged
    acked,          \* broker: acknowledged messages, in order of ack
    delivered,      \* broker: every delivery so far, in order
    reconnects,     \* connections lost so far
    flushed,        \* what the latest _write_distillations did
    end_flushes,    \* calls of _write_distillations from on_consume_end
    cb,             \* what the latest callback did
    wev             \* the latest worker step

wvars == <<clock, archive, saved, tweets, collected, is_stopped, should_stop,
           last_distilled, phase, line, qos, next_msg, unacked, acked,
           delivered, reconnects, flushed, end_flushes, cb, wev>>

vars == <<svars, wvars>>

(* ------------------------------ helpers ------------------------------- *)
Range(s) == {s[i] : i \in 1..Len(s)}

Min(S) == CHOOSE x \in S : \A y \in S : x <= y

\* a queryset evaluated to a list: rows in primary-key order
RECURSIVE Ordered(_)
Ordered(S) == IF S = {} THEN <<>>
              ELSE LET m == Min(S) IN <<m>> \o Ordered(S \ {m})

\* list.remove(x): drops the first occurrence only
RECURSIVE RemoveFirst(_, _)
RemoveFirst(s, x) ==
    IF s = <<>> THEN <<>>
    ELSE IF Head(s) = x THEN Tail(s)
    ELSE <<Head(s)>> \o RemoveFirst(Tail(s), x)

\* stopped__lte=now and stopped__gt=now | stopped__isnull=True
StoppedLte(a, t) == a.stopped # NULL /\ a.stopped <= t
StillOpen(a, t) == a.stopped = NULL \/ a.stopped > t

NoTick == [n |-> 0, to_start |-> {}, to_stop |-> {}, to_restart |-> {},
           was_running |-> {}, chilled |-> FALSE, adjusted |-> FALSE,
           disconnected |-> {}, started |-> {}, stopped |-> {},
           attempted |-> {}, opened |-> {}, failed |-> {}]

(* ======================= Stream Supervisor ============================ *)
Outcomes == {"ok", "auth_error", "filter_error"}

\* dict assignment d[k] = v
Put(d, k, v) == [x \in (DOMAIN d) \cup {k} |-> IF x = k THEN v ELSE d[x]]

\* del(d[k])
Del(d, k) == [x \in (DOMAIN d) \ {k} |-> d[x]]

\* The local view a loop iteration works on: the tracked list, the table
\* rows it saves, the stream registry, and the count of connected channels.
Here == [tracking |-> tracking, archives |-> archives,
         streams |-> streams, live |-> live]

\* start_tracking without the membership test
start_tracking_NoDedup(s, a) ==
    [s EXCEPT !.tracking = Append(@, a),
              !.archives[a].is_running = TRUE]

\* Command.start_tracking
start_tracking(s, a) ==
    [s EXCEPT !.tracking = IF a \in Range(@) THEN @ ELSE Append(@, a),
              !.archives[a].is_running = TRUE]

\* Command.stop_tracking
stop_tracking(s, a) ==
    [s EXCEPT !.tracking = IF a \in Range(@) THEN RemoveFirst(@, a) ELSE @,
              !.archives[a].is_running = FALSE]

RECURSIVE StartAll(_, _)
StartAll(s, seq) ==
    IF seq = <<>> THEN s ELSE StartAll(start_tracking(s, Head(seq)), Tail(seq))

RECURSIVE StopAll(_, _)
StopAll(s, seq) ==
    IF seq = <<>> THEN s ELSE StopAll(stop_tracking(s, Head(seq)), Tail(seq))

\* a registry entry dropped without disconnecting the stream
KillStream_NoDisconnect(s, u) == [s EXCEPT !.streams = Del(@, u)]

\* stream.disconnect(); stream.listener.close_log(); del(self.streams[user])
KillStream(s, u) ==
    [s EXCEPT !.live[u] = IF s.streams[u].connected THEN @ - 1 ELSE @,
              !.streams = Del(@, u)]

\* "Kill streams belonging to users that are either stopping or starting"
RECURSIVE KillStreams(_, _)
KillStreams(s, users) ==
    IF users = {} THEN s
    ELSE LET u == Min(users)
             s1 == IF u \in DOMAIN s.streams THEN KillStream(s, u) ELSE s
         IN KillStreams(s1, users \ {u})

\* the keys of groups, in dict insertion order (first appearance in tracking)
RECURSIVE GroupKeys(_, _, _, _)
GroupKeys(seq, rows, users, seen) ==
    IF seq = <<>> THEN <<>>
    ELSE LET u == rows[Head(seq)].user
         IN IF u \in users /\ u \notin seen
            THEN <<u>> \o GroupKeys(Tail(seq), rows, users, seen \cup {u})
            ELSE GroupKeys(Tail(seq), rows, users, seen)

\* groups[user]: the tracked archives of that user, in tracking order
Group(s, u) == SelectSeq(s.tracking, LAMBDA a : s.archives[a].user = u)

\* the body of the try block for one user, with the outcome of the calls:
\*   auth_error   - _authenticate / StreamArchiver / tweepy.Stream raises,
\*                  nothing is assigned to self.streams[user]
\*   filter_error - self.streams[user] is assigned and .filter() raises,
\*                  the registry keeps a stream that never ran
\*   ok           - .filter(async=True) returns, the stream is running
Connect(s, u, outcome) ==
    IF outcome = "auth_error" THEN s
    ELSE IF outcome = "filter_error"
    THEN [s EXCEPT !.streams = Put(@, u, [running |-> FALSE, connected |-> FALSE,
                                          channels |-> Group(s, u)])]
    ELSE [s EXCEPT !.streams = Put(@, u, [running |-> TRUE, connected |-> TRUE,
                                          channels |-> Group(s, u)]),
                   !.live[u] = @ + 1]

\* the loop over groups left at the first connection attempt that fails
RECURSIVE ConnectAll_AbortOnError(_, _, _)
ConnectAll_AbortOnError(s, keys, oc) ==
    IF keys = <<>> THEN s
    ELSE IF oc[Head(keys)] # "ok" THEN Connect(s, Head(keys), oc[Head(keys)])
    ELSE ConnectAll_AbortOnError(Connect(s, Head(keys), oc[Head(keys)]),
                                 Tail(keys), oc)

\* for user, archives in groups.items(): try ... except Exception
RECURSIVE ConnectAll(_, _, _)
ConnectAll(s, keys, oc) ==
    IF keys = <<>> THEN s
    ELSE ConnectAll(Connect(s, Head(keys), oc[Head(keys)]), Tail(keys), oc)

users_adjusting(to_start, to_stop) ==
    {archives[a].user : a \in to_start \cup to_stop}

\* adjust_connections up to and including the two tracking loops
Regrouped(to_start, to_stop) ==
    LET s0 == KillStreams(Here, users_adjusting(to_start, to_stop))
        s1 == StopAll(s0, Ordered(to_stop))
    IN StartAll(s1, Ordered(to_start))

\* Command.adjust_connections; oc gives the outcome of each connection attempt
adjust_connections(to_start, to_stop, oc) ==
    LET s2 == Regrouped(to_start, to_stop)
        keys == GroupKeys(s2.tracking, s2.archives,
                          users_adjusting(to_start, to_stop), {})
    IN ConnectAll(s2, keys, oc)

\* restart detection that waits but does not widen the queryset
handle_restarts_NotWidened(to_start) ==
    LET dead == {u \in DOMAIN streams : ~streams[u].running}
        to_restart == UNION {Range(streams[u].channels) : u \in dead}
    IN [qs |-> to_start, to_restart |-> to_restart,
        chilled |-> to_restart # {}]

\* Command._handle_restarts
handle_restarts(to_start) ==
    LET dead == {u \in DOMAIN streams : ~streams[u].running}
        to_restart == UNION {Range(streams[u].channels) : u \in dead}
    IN IF to_restart = {}
       THEN [qs |-> to_start, to_restart |-> {}, chilled |-> FALSE]
       ELSE [qs |-> {a \in Archives : a \in to_start \cup to_restart},
             to_restart |-> to_restart, chilled |-> TRUE]

\* the flag after _get_archives_to_start: it is assigned only inside the
\* branch that it guards
first_pass_after == IF first_pass_completed THEN TRUE ELSE first_pass_completed

\* Command._get_archives_to_start
get_archives_to_start ==
    LET r0 == {a \in Archives : archives[a].started <= now
                                /\ a \notin Range(tracking)}
        r1 == IF first_pass_completed
              THEN {a \in r0 : archives[a].is_running} ELSE r0
        h == handle_restarts({a \in r1 : StillOpen(archives[a], now)})
    IN [h EXCEPT !.qs = {a \in h.qs :
                            status[archives[a].user] # STATUS_DISABLED}]

\* Archive.objects.filter(stopped__lte=now, is_running=True)
get_archives_to_stop ==
    {a \in Archives : StoppedLte(archives[a], now) /\ archives[a].is_running}

\* exit that leaves without touching the streams
exit_NoDisconnect(s) == s

\* Command.exit up to sys.exit: every stream of the registry is disconnected
\* and its log closed; the registry itself is not emptied
exit(s) ==
    [s EXCEPT !.live = [u \in Owners |->
                           IF u \in DOMAIN s.streams /\ s.streams[u].connected
                           THEN @[u] - 1 ELSE @[u]],
              !.streams = [u \in DOMAIN s.streams |->
                              [s.streams[u] EXCEPT !.connected = FALSE,
                                                   !.running = FALSE]]]

\* sys.exit(0) was reached: the process is gone
Exited == ev \in {"signal", "exception"}

Bump(n) == IF n < 2 THEN n + 1 ELSE n

\* one iteration of Command.loop
Tick ==
    LET g == get_archives_to_start
        to_start == g.qs
        to_stop == get_archives_to_stop
        seen == [NoTick EXCEPT !.n = Bump(last.n),
                    !.to_start = to_start, !.to_stop = to_stop,
                    !.to_restart = g.to_restart, !.chilled = g.chilled,
                    !.was_running = {a \in Archives : archives[a].is_running}]
    IN /\ ~Exited
       /\ first_pass_completed' = first_pass_after
       /\ ev' = "tick"
       /\ UNCHANGED wvars
       /\ UNCHANGED <<now, status>>
       /\ IF to_start # {} \/ to_stop # {}
          THEN LET s2 == Regrouped(to_start, to_stop)
                   keys == GroupKeys(s2.tracking, s2.archives,
                                     users_adjusting(to_start, to_stop), {})
               IN \E oc \in [Range(keys) -> Outcomes] :
                     LET s == adjust_connections(to_start, to_stop, oc)
                     IN /\ tracking' = s.tracking
                        /\ archives' = s.archives
                        /\ streams' = s.streams
                        /\ live' = s.live
                        /\ last' = [seen EXCEPT
                              !.adjusted = TRUE,
                              !.disconnected =
                                  users_adjusting(to_start, to_stop)
                                      \cap DOMAIN streams,
                              !.stopped = to_stop,
                              !.started = to_start,
                              !.attempted = Range(keys),
                              !.opened = {u \in Range(keys) : oc[u] = "ok"},
                              !.failed = {u \in Range(keys) : oc[u] # "ok"}]
          ELSE /\ UNCHANGED <<tracking, archives, streams, live>>
               /\ last' = seen

(* ------------------------- the environment ---------------------------- *)
\* a step of the environment: the record of the latest loop iteration is
\* kept only until something else happens
Env ==
    /\ ~Exited
    /\ ev' = "env"
    /\ UNCHANGED wvars
    /\ last' = [NoTick EXCEPT !.n = last.n]

\* time passes
AdvanceClock ==
    /\ now < MaxTime
    /\ now' = now + 1
    /\ Env
    /\ UNCHANGED <<archives, status, tracking, streams, first_pass_completed,
                   live>>

\* a stream spontaneously disconnects: stream.running becomes False
ChannelDrop(u) ==
    /\ u \in DOMAIN streams
    /\ streams[u].running
    /\ streams' = [streams EXCEPT ![u].running = FALSE]
    /\ Env
    /\ UNCHANGED <<now, archives, status, tracking, first_pass_completed,
                   live>>

\* an owner is disabled or enabled again
SetStatus(u) ==
    /\ status' = [status EXCEPT ![u] = IF @ = STATUS_DISABLED
                                       THEN STATUS_ACTIVE ELSE STATUS_DISABLED]
    /\ Env
    /\ UNCHANGED <<now, archives, tracking, streams, first_pass_completed,
                   live>>

\* handle() leaves loop() and runs exit()
Leave ==
    /\ ~Exited
    /\ LET s == exit(Here)
       IN /\ streams' = s.streams
          /\ live' = s.live
    /\ last' = [NoTick EXCEPT !.n = last.n]
    /\ UNCHANGED wvars
    /\ UNCHANGED <<now, archives, status, tracking, first_pass_completed>>

\* SIGINT or SIGTERM calls the handler exit between two iterations of loop()
Signal ==
    /\ ev' = "signal"
    /\ Leave

\* an exception raised by loop() (a query of the archive table that fails)
\* reaches the except clause of handle(), which calls exit()
LoopException ==
    /\ ev' = "exception"
    /\ Leave

Rows == [user : Owners, started : 0..(MaxTime - 1),
         stopped : (1..MaxTime) \cup {NULL}, is_running : BOOLEAN]

\* Command.__init__, with any table left by an earlier run: a row that an
\* earlier run left with is_running set had its window open by then
SupInit ==
    /\ now = 0
    /\ archives \in [Archives -> Rows]
    /\ \A a \in Archives : archives[a].is_running => archives[a].started <= now
    /\ status \in [Owners -> {STATUS_ACTIVE, STATUS_DISABLED}]
    /\ tracking = <<>>
    /\ streams = <<>>
    /\ first_pass_completed = FALSE
    /\ live = [u \in Owners |-> 0]
    /\ last = NoTick
    /\ ev = "init"

SupNext ==
    \/ Tick
    \/ AdvanceClock
    \/ \E u \in Owners : ChannelDrop(u)
    \/ \E u \in Owners : SetStatus(u)
    \/ Signal
    \/ LoopException

(* ======================= Consumption Worker =========================== *)
Aggregators == {"raw", "cloud", "images", "statistics", "map", "search"}

\* the collect calls of _process_message, in call order
ProcessOrder ==
    IF archive.allow_search
    THEN <<"raw", "cloud", "images", "statistics", "map", "search">>
    ELSE <<"raw", "cloud", "images", "statistics", "map">>

\* _parse_line that leaves the statistics aggregator out
ParseOrder_NoStatistics ==
    IF archive.allow_search
    THEN <<"map", "cloud", "images", "search">>
    ELSE <<"map", "cloud", "images">>

\* the collect calls of _parse_line, in call order
ParseOrder ==
    IF archive.allow_search
    THEN <<"map", "cloud", "images", "statistics", "search">>
    ELSE <<"map", "cloud", "images", "statistics">>

\* the generate calls of _write_distillations, in call order
GenerateOrder == <<"raw", "map", "cloud", "statistics", "images">>

\* the aggregators _process_message feeds for this archive
Enabled == Range(ProcessOrder)

Message(m) == [src |-> "queue", id |-> m]
Logged(i) == [src |-> "log", id |-> i]

\* collect(rec) on the first k aggregators of order
Collect(c, order, k, rec) ==
    [g \in Aggregators |->
        IF \E i \in 1..k : order[i] = g THEN Append(c[g], rec) ELSE c[g]]

\* statistics.aggregate["total"]: the running count of the aggregator
StatisticsTotal(c) == Len(c["statistics"])

\* the fields archive.save(update_fields=...) writes
Persisted(a) ==
    [cloud |-> a.cloud, cloud_generated |-> a.cloud_generated,
     images |-> a.images, images_generated |-> a.images_generated,
     statistics |-> a.statistics,
     statistics_generated |-> a.statistics_generated,
     total |-> a.total]

\* The worker as one of its methods sees it; raised is set while an
\* exception is propagating, alerted once _alert was called, flushes counts
\* the calls of _write_distillations.
Self == [archive |-> archive, saved |-> saved, collected |-> collected,
         last_distilled |-> last_distilled, unacked |-> unacked,
         acked |-> acked, flushed |-> flushed, should_stop |-> should_stop,
         is_stopped |-> is_stopped, raised |-> FALSE, alerted |-> FALSE,
         flushes |-> 0]

\* ArchiveConsumer._write_distillations; genFail = j > 0 when the j-th
\* generate call raises, 0 when none does
write_distillations(w, genFail) ==
    LET done(j) == genFail = 0 \/ genFail > j
        a == [w.archive EXCEPT
                !.cloud = IF done(3) THEN Len(w.collected["cloud"]) ELSE @,
                !.cloud_generated = IF done(3) THEN clock ELSE @,
                !.statistics =
                    IF done(4) THEN Len(w.collected["statistics"]) ELSE @,
                !.statistics_generated = IF done(4) THEN clock ELSE @,
                !.images = IF done(5) THEN Len(w.collected["images"]) ELSE @,
                !.images_generated = IF done(5) THEN clock ELSE @,
                !.total = IF genFail = 0
                          THEN StatisticsTotal(w.collected) ELSE @]
    IN [w EXCEPT !.last_distilled = clock,
                 !.flushes = @ + 1,
                 !.archive = a,
                 !.saved = IF genFail = 0 THEN Persisted(a) ELSE @,
                 !.flushed = IF genFail = 0 THEN "complete" ELSE "partial",
                 !.raised = genFail # 0]

\* _process_message with the acknowledgment moved before the collect calls
process_message_AckFirst(w, m, failAt, genFail) ==
    LET n == IF failAt = 0 THEN Len(ProcessOrder) ELSE failAt - 1
        w1 == [w EXCEPT !.archive.total = @ + 1,
                        !.unacked = Tail(@), !.acked = Append(@, m)]
    IN [w1 EXCEPT !.collected = Collect(@, ProcessOrder, n, Message(m)),
                  !.raised = failAt # 0]

\* _process_message that flushes as soon as the window has elapsed
process_message_WindowInclusive(w, m, failAt, genFail) ==
    LET n == IF failAt = 0 THEN Len(ProcessOrder) ELSE failAt - 1
        w1 == [w EXCEPT !.archive.total = @ + 1,
                        !.collected = Collect(@, ProcessOrder, n, Message(m)),
                        !.raised = failAt # 0]
        w2 == IF w1.raised THEN w1
              ELSE [w1 EXCEPT !.unacked = Tail(@), !.acked = Append(@, m)]
    IN IF w2.raised THEN w2
       ELSE IF clock - w2.last_distilled >= DISTILLATION_WINDOW
            THEN write_distillations(w2, genFail)
            ELSE w2

\* ArchiveConsumer._process_message; failAt = k > 0 when the k-th collect
\* call raises, 0 when none does
process_message(w, m, failAt, genFail) ==
    LET n == IF failAt = 0 THEN Len(ProcessOrder) ELSE failAt - 1
        w1 == [w EXCEPT !.archive.total = @ + 1,
                        !.collected = Collect(@, ProcessOrder, n, Message(m)),
                        !.raised = failAt # 0]
        w2 == IF w1.raised THEN w1
              ELSE [w1 EXCEPT !.unacked = Tail(@), !.acked = Append(@, m)]
    IN IF w2.raised THEN w2
       ELSE IF clock - w2.last_distilled > DISTILLATION_WINDOW
            THEN write_distillations(w2, genFail)
            ELSE w2

\* callback that reports the failure and keeps consuming
callback_NoStop(w, m, failAt, genFail) ==
    LET r == process_message(w, m, failAt, genFail)
    IN IF r.raised THEN [r EXCEPT !.raised = FALSE, !.alerted = TRUE] ELSE r

\* ArchiveConsumer.callback
callback(w, m, failAt, genFail) ==
    LET r == process_message(w, m, failAt, genFail)
    IN IF r.raised
       THEN [r EXCEPT !.raised = FALSE, !.alerted = TRUE, !.should_stop = TRUE]
       ELSE r

\* on_consume_end that sets is_stopped before the final flush
on_consume_end_StoppedFirst(w, genFail) ==
    write_distillations([w EXCEPT !.is_stopped = TRUE], genFail)

\* ArchiveConsumer.on_consume_end
on_consume_end(w, genFail) ==
    LET r == write_distillations(w, genFail)
    IN IF r.raised THEN r ELSE [r EXCEPT !.is_stopped = TRUE]

NoCallback == [msg |-> 0, failed |-> "none", acked |-> FALSE,
               alerted |-> FALSE, escaped |-> FALSE, stop |-> FALSE,
               flushes |-> 0, again |-> FALSE]

\* a step of the worker other than callback and on_consume_end: the record
\* of the latest callback is kept only until something else happens
Step ==
    /\ wev' = "step"
    /\ cb' = NoCallback
    /\ UNCHANGED svars

\* the broker takes back what the closed channel had not acknowledged
Requeued == IF unacked = <<>> THEN next_msg ELSE Head(unacked)

\* ArchiveConsumer.start
Start ==
    /\ phase = "new"
    /\ is_stopped' = FALSE
    /\ collected' = [g \in Aggregators |-> <<>>]
    /\ last_distilled' = clock
    /\ phase' = "started"
    /\ Step
    /\ UNCHANGED <<clock, archive, saved, tweets, should_stop, line, qos,
                   next_msg, unacked, acked, delivered, reconnects, flushed,
                   end_flushes>>

\* run(): the loop of ConsumerMixin.run opens the connection, binds the
\* consumers of get_consumers and enters on_consume_ready, which begins
\* _compile_aggregates
BeginConsume ==
    /\ phase = "started"
    /\ ~should_stop
    /\ phase' = "replay"
    /\ line' = 0
    /\ qos' = FALSE
    /\ archive' = [archive EXCEPT !.total = 0]
    /\ Step
    /\ UNCHANGED <<clock, saved, tweets, collected, is_stopped, should_stop,
                   last_distilled, next_msg, unacked, acked, delivered,
                   reconnects, flushed, end_flushes>>

\* run(): should_stop is set when the loop of ConsumerMixin.run tests it
RunExit ==
    /\ phase = "started"
    /\ should_stop
    /\ phase' = "exited"
    /\ Step
    /\ UNCHANGED <<clock, archive, saved, tweets, collected, is_stopped,
                   should_stop, last_distilled, line, qos, next_msg, unacked,
                   acked, delivered, reconnects, flushed, end_flushes>>

\* _compile_aggregates: one iteration of the loop over get_tweets()
ReplayLine ==
    /\ phase = "replay"
    /\ line < Len(tweets)
    /\ wev' = "replay" /\ cb' = NoCallback /\ UNCHANGED svars
    /\ IF should_stop
       THEN \* return from _compile_aggregates, then basic_qos
            /\ phase' = "consuming"
            /\ qos' = TRUE
            /\ UNCHANGED <<line, collected>>
       ELSE IF tweets[line + 1] = "bad"
       THEN \* json.loads raises ValueError: the line is ignored
            /\ line' = line + 1
            /\ UNCHANGED <<phase, qos, collected>>
       ELSE IF tweets[line + 1] = "nonobject"
       THEN \* json.loads returns a value that is not an object and
            \* tweet.get raises AttributeError: out of on_consume_ready
            /\ phase' = "crashed"
            /\ UNCHANGED <<line, qos, collected>>
       ELSE \E failAt \in 0..Len(ParseOrder) :
               IF failAt = 0
               THEN /\ collected' = Collect(collected, ParseOrder,
                                            Len(ParseOrder), Logged(line + 1))
                    /\ line' = line + 1
                    /\ UNCHANGED <<phase, qos>>
               ELSE \* collect raises: out of on_consume_ready, into run()
                    /\ collected' = Collect(collected, ParseOrder,
                                            failAt - 1, Logged(line + 1))
                    /\ phase' = "crashed"
                    /\ UNCHANGED <<line, qos>>
    /\ UNCHANGED <<clock, archive, saved, tweets, is_stopped, should_stop,
                   last_distilled, next_msg, unacked, acked, delivered,
                   reconnects, flushed, end_flushes>>

\* _compile_aggregates after the loop, then basic_qos(0, 1, False)
ReplayDone ==
    /\ phase = "replay"
    /\ line = Len(tweets)
    /\ archive' = [archive EXCEPT !.total = StatisticsTotal(collected)]
    /\ qos' = TRUE
    /\ phase' = "consuming"
    /\ wev' = "replayed" /\ cb' = NoCallback /\ UNCHANGED svars
    /\ UNCHANGED <<clock, saved, tweets, collected, is_stopped, should_stop,
                   last_distilled, line, next_msg, unacked, acked, delivered,
                   reconnects, flushed, end_flushes>>

\* the broker delivers the next message of the queue to the bound consumer
Deliver ==
    /\ phase \in {"replay", "consuming"}
    /\ archive.allow_consumption
    /\ next_msg <= NumMessages
    /\ qos => unacked = <<>>
    /\ unacked' = Append(unacked, next_msg)
    /\ delivered' = Append(delivered, next_msg)
    /\ next_msg' = next_msg + 1
    /\ Step
    /\ UNCHANGED <<clock, archive, saved, tweets, collected, is_stopped,
                   should_stop, last_distilled, phase, line, qos, acked,
                   reconnects, flushed, end_flushes>>

\* drain_events hands the oldest delivered message to callback
Callback ==
    /\ phase = "consuming"
    /\ ~should_stop
    /\ unacked # <<>>
    /\ \E failAt \in 0..Len(ProcessOrder), genFail \in 0..Len(GenerateOrder) :
          \* a generate call can only raise when the flush is reached
          /\ genFail # 0 =>
                (failAt = 0 /\ clock - last_distilled > DISTILLATION_WINDOW)
          /\ LET m == Head(unacked)
                 r == callback(Self, m, failAt, genFail)
             IN /\ archive' = r.archive
                /\ saved' = r.saved
                /\ collected' = r.collected
                /\ last_distilled' = r.last_distilled
                /\ unacked' = r.unacked
                /\ acked' = r.acked
                /\ flushed' = r.flushed
                /\ should_stop' = r.should_stop
                /\ is_stopped' = r.is_stopped
                /\ cb' = [msg |-> m,
                          failed |-> IF failAt # 0 THEN "collect"
                                     ELSE IF genFail # 0
                                          THEN "generate" ELSE "none",
                          acked |-> m \in Range(r.acked),
                          alerted |-> r.alerted,
                          escaped |-> r.raised,
                          stop |-> r.should_stop,
                          flushes |-> r.flushes,
                          again |-> saved.statistics_generated # NULL]
    /\ wev' = "callback" /\ UNCHANGED svars
    /\ UNCHANGED <<clock, tweets, phase, line, qos, next_msg, delivered,
                   reconnects, end_flushes>>

\* the consume loop finds should_stop set and leaves; the consumers are
\* cancelled and on_consume_end runs, then the connection is closed
ConsumeEnd ==
    /\ phase = "consuming"
    /\ should_stop
    /\ \E genFail \in 0..Len(GenerateOrder) :
          LET r == on_consume_end(Self, genFail)
          IN /\ archive' = r.archive
             /\ saved' = r.saved
             /\ last_distilled' = r.last_distilled
             /\ flushed' = r.flushed
             /\ is_stopped' = r.is_stopped
             /\ phase' = IF r.raised THEN "crashed" ELSE "ended"
    /\ end_flushes' = end_flushes + 1
    /\ next_msg' = Requeued
    /\ unacked' = <<>>
    /\ wev' = "end" /\ cb' = NoCallback /\ UNCHANGED svars
    /\ UNCHANGED <<clock, tweets, collected, should_stop, line, qos, acked,
                   delivered, reconnects>>

\* drain_events raises a connection error: consume is left without
\* on_consume_end and the loop of ConsumerMixin.run starts over
ConnectionLost ==
    /\ phase = "consuming"
    /\ reconnects < MaxReconnects
    /\ reconnects' = reconnects + 1
    /\ phase' = "started"
    /\ qos' = FALSE
    /\ next_msg' = Requeued
    /\ unacked' = <<>>
    /\ Step
    /\ UNCHANGED <<clock, archive, saved, tweets, collected, is_stopped,
                   should_stop, last_distilled, line, acked, delivered,
                   flushed, end_flushes>>

\* another thread asks the worker to stop
RequestStop ==
    /\ phase \in {"started", "replay", "consuming"}
    /\ ~should_stop
    /\ should_stop' = TRUE
    /\ Step
    /\ UNCHANGED <<clock, archive, saved, tweets, collected, is_stopped,
                   last_distilled, phase, line, qos, next_msg, unacked, acked,
                   delivered, reconnects, flushed, end_flushes>>

\* time passes while the worker thread is alive (the clock counts from the
\* call of start)
AdvanceWorkerClock ==
    /\ phase \notin {"new", "ended", "crashed", "exited"}
    /\ clock + ClockStep <= MaxClock
    /\ clock' = clock + ClockStep
    /\ Step
    /\ UNCHANGED <<archive, saved, tweets, collected, is_stopped, should_stop,
                   last_distilled, phase, line, qos, next_msg, unacked, acked,
                   delivered, reconnects, flushed, end_flushes>>

\* a line of the record log as json.loads sees it: a JSON object ("ok"),
\* text that is not JSON ("bad"), or JSON that is not an object
Lines == {"ok", "bad", "nonobject"}

RECURSIVE Logs(_)
Logs(n) == IF n = 0 THEN {<<>>}
           ELSE Logs(n - 1) \cup
                {Append(t, x) : t \in Logs(n - 1), x \in Lines}

NewArchive(consumption, search) ==
    [allow_consumption |-> consumption, allow_search |-> search, total |-> 0,
     cloud |-> 0, cloud_generated |-> NULL,
     images |-> 0, images_generated |-> NULL,
     statistics |-> 0, statistics_generated |-> NULL]

\* ArchiveConsumer.__init__
WorkerInit ==
    /\ clock = 0
    /\ \E c \in BOOLEAN, f \in BOOLEAN : archive = NewArchive(c, f)
    /\ saved = Persisted(archive)
    /\ tweets \in Logs(MaxTweets)
    /\ collected = [g \in Aggregators |-> <<>>]
    /\ is_stopped = TRUE
    /\ should_stop = FALSE
    /\ last_distilled = NULL
    /\ phase = "new"
    /\ line = 0
    /\ qos = FALSE
    /\ next_msg = 1
    /\ unacked = <<>>
    /\ acked = <<>>
    /\ delivered = <<>>
    /\ reconnects = 0
    /\ flushed = "none"
    /\ end_flushes = 0
    /\ cb = NoCallback
    /\ wev = "init"

WorkerNext ==
    \/ Start
    \/ BeginConsume
    \/ RunExit
    \/ ReplayLine
    \/ ReplayDone
    \/ Deliver
    \/ Callback
    \/ ConsumeEnd
    \/ ConnectionLost
    \/ RequestStop
    \/ AdvanceWorkerClock

(* ---------------------- the two specifications ------------------------ *)
\* a worker that was constructed and never started
WorkerIdle ==
    /\ clock = 0
    /\ archive = NewArchive(FALSE, FALSE)
    /\ saved = Persisted(archive)
    /\ tweets = <<>>
    /\ collected = [g \in Aggregators |-> <<>>]
    /\ is_stopped = TRUE
    /\ should_stop = FALSE
    /\ last_distilled = NULL
    /\ phase = "new"
    /\ line = 0
    /\ qos = FALSE
    /\ next_msg = 1
    /\ unacked = <<>>
    /\ acked = <<>>
    /\ delivered = <<>>
    /\ reconnects = 0
    /\ flushed = "none"
    /\ end_flushes = 0
    /\ cb = NoCallback
    /\ wev = "init"

\* a collector with an empty archive table
SupIdle ==
    /\ now = 0
    /\ archives = <<>>
    /\ status = [u \in Owners |-> STATUS_ACTIVE]
    /\ tracking = <<>>
    /\ streams = <<>>
    /\ first_pass_completed = FALSE
    /\ live = [u \in Owners |-> 0]
    /\ last = NoTick
    /\ ev = "init"

Init == SupInit /\ WorkerIdle
Next == SupNext
Spec == Init /\ [][Next]_vars

WInit == WorkerInit /\ SupIdle
WNext == WorkerNext
WorkerSpec == WInit /\ [][WNext]_vars

(* ===================== Supervisor: the claims ========================= *)
Bound(a) == \E u \in DOMAIN streams : a \in Range(streams[u].channels)
Disabled(a) == status[archives[a].user] = STATUS_DISABLED

\* C1: in every reachable state an owner has at most one channel that was
\* opened and not yet disconnected, and that channel is the one the registry
\* holds for the owner: a new channel is opened only after the previous one
\* of that owner was disconnected and removed.
C1_OneLiveChannelPerOwner ==
    \A u \in Owners :
        /\ live[u] <= 1
        /\ live[u] = 1 => (u \in DOMAIN streams /\ streams[u].connected)
        /\ (u \in DOMAIN streams /\ streams[u].connected) => live[u] = 1

\* C1 witness: a tick disconnected an owner's channel and opened a new one
\* that carries two tracked archives of that owner.
C1_Witness ==
    /\ ev = "tick"
    /\ \E u \in last.opened \cap last.disconnected :
          /\ Len(streams[u].channels) >= 2
          /\ live[u] = 1

\* C1, second case: the same owner is in to_start and in to_stop of one tick
\* and ends the tick with a newly opened channel.
C1_StartAndStopSameOwner ==
    /\ ev = "tick"
    /\ \E a \in last.to_start, b \in last.to_stop :
          /\ a # b
          /\ archives[a].user = archives[b].user
          /\ archives[a].user \in last.opened \cap last.disconnected

\* C2: after one tick, every archive with stopped <= now has is_running
\* false, is not tracked and is bound to no channel of the registry.
C2_StoppedAfterOneTick ==
    ev = "tick" =>
        \A a \in Archives :
            StoppedLte(archives[a], now) =>
                /\ ~archives[a].is_running
                /\ a \notin Range(tracking)
                /\ ~Bound(a)

\* C3: on every tick after the very first, to_start holds no archive whose
\* is_running flag was false when the tick began.
C3_NotRunningNeverStarted ==
    (ev = "tick" /\ last.n >= 2) => last.to_start \subseteq last.was_running

\* C4: an archive whose owner is disabled at a tick is not passed to
\* start_tracking by that tick and no channel opened in that tick is bound
\* to it.
C4_DisabledNeverStarted ==
    ev = "tick" =>
        \A a \in Archives :
            Disabled(a) =>
                /\ a \notin last.started
                /\ \A u \in last.opened : a \notin Range(streams[u].channels)

\* C5 as stated: the to_start of a tick contains every archive bound to a
\* channel that reported not-running when the tick began.
C5_RestartsAllInToStart ==
    ev = "tick" => last.to_restart \subseteq last.to_start

\* C5 as amended: after the cooldown, to_start contains every archive bound
\* to a channel that reported not-running whose owner is not disabled, and
\* none whose owner is disabled.
C5_RestartsOfEnabledOwnersInToStart ==
    ev = "tick" =>
        /\ last.to_restart # {} => last.chilled
        /\ \A a \in last.to_restart : (a \in last.to_start) <=> ~Disabled(a)

\* C5 witness: a tick found a dead channel whose archive was tracked with
\* is_running true, and put that archive in to_start.
C5_Witness ==
    /\ ev = "tick"
    /\ last.chilled
    /\ \E a \in last.to_restart \cap last.to_start : a \in last.was_running

\* C6: between ticks, is_running is true iff the archive is tracked.
C6_RunningIffTracked ==
    ev = "tick" =>
        \A a \in Archives : archives[a].is_running <=> a \in Range(tracking)

\* C7: a tick that directly follows a tick, with no step of the environment
\* in between, leaves the registry unchanged and does not enter
\* adjust_connections.
C7_SecondTickNoChurn ==
    [][(ev = "tick" /\ ev' = "tick")
          => (streams' = streams /\ ~last'.adjusted)]_vars

\* the owners of the archives in to_start and to_stop of the latest tick
Touched == {archives[a].user : a \in last.to_start \cup last.to_stop}

\* the tracked archives of owner u
TrackedOf(u) == {a \in Range(tracking) : archives[a].user = u}

\* C13: a connection attempt that fails for one owner is caught: the tick
\* still attempts every touched owner that has tracked archives, every one
\* of them whose own attempt did not fail ends the tick with a running
\* channel in the registry, and the process has not left the loop.
C13_FailureIsolatedPerOwner ==
    (ev = "tick" /\ last.adjusted) =>
        /\ last.attempted = {u \in Touched : TrackedOf(u) # {}}
        /\ \A u \in last.attempted \ last.failed :
              /\ u \in DOMAIN streams
              /\ streams[u].running
              /\ streams[u].connected
              /\ live[u] = 1
        /\ ~Exited

\* C13 witness: in one tick the attempt for one owner failed and another
\* owner got its channel opened.
C13_Witness ==
    /\ ev = "tick"
    /\ last.failed # {}
    /\ \E u \in last.opened : u \in DOMAIN streams /\ streams[u].running

\* every channel of the registry has been disconnected
AllDisconnected ==
    \A u \in Owners :
        /\ live[u] = 0
        /\ u \in DOMAIN streams =>
              (~streams[u].connected /\ ~streams[u].running)

\* C14 as stated: the process leaves the loop only on a termination signal,
\* and when it has exited every channel of the registry was disconnected.
C14_ExitOnlyOnSignal ==
    Exited => (ev = "signal" /\ AllDisconnected)

\* C14 as amended: the process leaves the loop on a termination signal or on
\* an exception that escapes loop(), and in both cases every channel that was
\* in the registry has been disconnected before the exit.
C14_ExitDisconnectsAll ==
    Exited => AllDisconnected

\* C14 witness: the process exited on an exception with a channel in the
\* registry.
C14_Witness ==
    ev = "exception" /\ DOMAIN streams # {}

\* C16: a channel that reported not-running when a tick began has, after
\* the cooldown, been disconnected and removed in that tick, and its owner's
\* archives were regrouped into a new channel, which is running unless the
\* attempt to open it failed.
C16_DeadChannelRestarted ==
    ev = "tick" =>
        \A a \in last.to_restart :
            LET u == archives[a].user
            IN /\ last.chilled
               /\ u \in last.disconnected
               /\ u \in last.attempted
               /\ u \in last.failed
                     \/ (u \in DOMAIN streams /\ streams[u].running)

\* C17: after a tick in which the connection attempt of an owner failed the
\* registry holds no channel for that owner.
C17_FailedOpenLeavesNoChannel ==
    ev = "tick" => \A u \in last.failed : u \notin DOMAIN streams

\* C17, second half: the tick that follows such a tick, with nothing
\* happening in between, makes no connection attempt for that owner.
C17_FailureTriggersNoReconnect ==
    [][(ev = "tick" /\ ev' = "tick")
          => last.failed \cap last'.attempted = {}]_vars

NoDuplicates(seq) ==
    \A i, j \in 1..Len(seq) : i # j => seq[i] # seq[j]

\* C20: after every tick the tracked list holds no archive twice and every
\* channel of the registry is bound to exactly the tracked archives of the
\* owner it is keyed by; a tick leaves the registry entries of the owners it
\* does not touch as they were.
C20_RegistryMatchesTracking ==
    /\ [](ev = "tick" =>
            /\ NoDuplicates(tracking)
            /\ \A u \in DOMAIN streams :
                  /\ \A a \in Range(streams[u].channels) :
                        archives[a].user = u
                  /\ Range(streams[u].channels) = TrackedOf(u)
                  /\ NoDuplicates(streams[u].channels))
    /\ [][ev' = "tick" =>
            \A u \in Owners :
                u \notin {archives'[a].user :
                             a \in last'.to_start \cup last'.to_stop} =>
                    /\ (u \in DOMAIN streams) = (u \in DOMAIN streams')
                    /\ u \in DOMAIN streams => streams'[u] = streams[u]]_vars

\* C20 witness: a tick regrouped two tracked archives of one owner into one
\* channel while the channel of another owner stayed in the registry.
C20_Witness ==
    /\ ev = "tick"
    /\ \E u \in last.opened, v \in DOMAIN streams :
          /\ u # v
          /\ v \notin Touched
          /\ u \in last.disconnected

(* ======================= Worker: the claims =========================== *)
\* the position of the first delivery of message m
FirstDelivery(m) == Min({p \in 1..Len(delivered) : delivered[p] = m})

\* C8: every acknowledged message was collected by every enabled aggregator
\* (raw, cloud, images, statistics, map, and search when allow_search), and
\* messages are acknowledged in the order of their delivery.
C8_AckAfterAllCollected ==
    /\ \A i \in 1..Len(acked) :
          /\ acked[i] \in Range(delivered)
          /\ \A g \in Enabled : Message(acked[i]) \in Range(collected[g])
    /\ \A i, j \in 1..Len(acked) :
          i < j => FirstDelivery(acked[i]) < FirstDelivery(acked[j])

\* C8 witness: two messages were acknowledged with the search aggregator
\* enabled.
C8_Witness == Len(acked) >= 2 /\ archive.allow_search

\* C9 as stated: when a collect or generate call raises inside callback, the
\* failure is reported, the message is left unacknowledged, should_stop is
\* set and no exception leaves callback.
C9_FailureLeavesMessageUnacked ==
    (wev = "callback" /\ cb.failed # "none") =>
        cb.alerted /\ ~cb.acked /\ cb.stop /\ ~cb.escaped

\* C9 as amended: a failure inside callback is reported, sets should_stop and
\* does not leave callback; the message is left unacknowledged when a collect
\* call raised, and is already acknowledged when a generate call of the
\* flush raised.
C9_FailureReportedAndStops ==
    wev = "callback" =>
        /\ cb.failed # "none" => (cb.alerted /\ cb.stop /\ should_stop)
        /\ ~cb.escaped
        /\ cb.failed = "collect" =>
              (~cb.acked /\ unacked # <<>> /\ Head(unacked) = cb.msg)
        /\ cb.failed = "generate" => (cb.acked /\ cb.msg \notin Range(unacked))
        /\ cb.failed = "none" => (cb.acked /\ ~cb.alerted)

\* C9 witness: a generate call raised during the flush a message triggered.
C9_Witness ==
    wev = "callback" /\ cb.failed = "generate" /\ flushed = "partial"

\* C9, the other case: a collect call raised.
C9_WitnessCollect ==
    wev = "callback" /\ cb.failed = "collect" /\ should_stop

\* C10: is_stopped is true before start(), false from start() on, and true
\* again only once on_consume_end has completed the final flush; that flush
\* ran exactly once and was the latest write of the snapshot fields.
C10_Quiescence ==
    /\ phase = "new" => is_stopped
    /\ phase \notin {"new", "ended"} => ~is_stopped
    /\ end_flushes <= 1
    /\ phase = "ended" =>
          /\ is_stopped
          /\ end_flushes = 1
          /\ flushed = "complete"
          /\ saved = Persisted(archive)
          /\ last_distilled = saved.statistics_generated

\* C10 witness: the worker was started, consumed and acknowledged a message,
\* was asked to stop and has ended.
C10_Witness ==
    phase = "ended" /\ is_stopped /\ acked # <<>> /\ wev = "end"

\* C11: the worker never has more than one delivered and unacknowledged
\* message outstanding.
C11_AtMostOneUnacked == Len(unacked) <= 1

\* the well-formed records of a log
WellFormed(t) == Cardinality({i \in 1..Len(t) : t[i] = "ok"})

\* C12: replay is not ended by a malformed record, no malformed record is
\* fed to an aggregator, and when replay has completed archive.total is the
\* number of well-formed records of the log.
C12_ReplayToleratesMalformed ==
    /\ (wev = "replay" /\ phase = "crashed") => tweets[line + 1] = "ok"
    /\ \A g \in Aggregators, i \in 1..Len(tweets) :
          Logged(i) \in Range(collected[g]) => tweets[i] = "ok"
    /\ wev = "replayed" => archive.total = WellFormed(tweets)

\* C15 as stated: every well-formed record replayed so far was collected by
\* every aggregator the callback feeds (raw, cloud, images, statistics, map,
\* and search when allow_search).
C15_ReplayFeedsAllAggregators ==
    \A i \in 1..line :
        tweets[i] = "ok" =>
            \A g \in Enabled : Logged(i) \in Range(collected[g])

\* C15 as amended: every well-formed record replayed so far was collected by
\* cloud, images, statistics, map, and search when allow_search; replay
\* feeds no record to raw, and none to search when allow_search is false.
C15_ReplayFeedsAllButRaw ==
    /\ \A i \in 1..line :
          tweets[i] = "ok" =>
              \A g \in Enabled \ {"raw"} : Logged(i) \in Range(collected[g])
    /\ \A i \in 1..Len(tweets) :
          /\ Logged(i) \notin Range(collected["raw"])
          /\ ~archive.allow_search => Logged(i) \notin Range(collected["search"])

\* C15 witness: replay has fed a well-formed record of the log to the
\* aggregators of an archive that allows search.
C15_Witness ==
    /\ line >= 1
    /\ tweets[1] = "ok"
    /\ archive.allow_search
    /\ Logged(1) \in Range(collected["search"])

\* C18: last_distilled never decreases; a callback that processed and
\* acknowledged its message flushes exactly when more than
\* DISTILLATION_WINDOW has elapsed since last_distilled, a callback whose
\* collect failed does not flush, and a flush sets last_distilled to the
\* current time.
C18_FlushOnlyAfterWindow ==
    [][/\ last_distilled' >= last_distilled
       /\ wev' = "callback" =>
             /\ cb'.flushes <= 1
             /\ cb'.failed = "none" =>
                   (cb'.flushes = 1
                       <=> clock - last_distilled > DISTILLATION_WINDOW)
             /\ cb'.failed = "collect" => cb'.flushes = 0
             /\ cb'.flushes = 1 =>
                   /\ last_distilled' = clock'
                   /\ last_distilled' - last_distilled > DISTILLATION_WINDOW
             /\ cb'.flushes = 0 => last_distilled' = last_distilled]_vars

\* C18 witness: a message triggered a flush after an earlier flush had
\* written the snapshot.
C18_Witness ==
    /\ wev = "callback"
    /\ cb.failed = "none"
    /\ cb.flushes = 1
    /\ cb.again

\* C19: once a flush has persisted the snapshot, the persisted total is not
\* smaller than the number of well-formed records of the record log.
C19_NoFlushOfPartialReplay ==
    saved.statistics_generated # NULL => saved.total >= WellFormed(tweets)

====
